---- MODULE Spec2Model ----
(***************************************************************************)
(* Model of fastapi-sse-llm: the Worker (src/consumer.py: callback,        *)
(* process_message, stream_to_redis, simulate_llm), the Gateway            *)
(* (src/main.py: ask) and the Bridge (src/main.py: event_generator),       *)
(* together with the two brokers they talk to: the durable queue           *)
(* "llm_queue" (at-least-once delivery, prefetch 1) and the Redis pub/sub  *)
(* relay (no buffer: an event reaches only the subscriptions that exist    *)
(* when it is published).                                                  *)
(*                                                                         *)
(* Every await of the code is a suspension point and ends an action.       *)
(***************************************************************************)
EXTENDS Integers, Sequences, FiniteSets, TLC

\* ------------------------------------------------------------- bounds
\* time.time() ranges over 1..MaxNow (the epoch clock is always positive).
MaxNow == 2
\* Number of times the worker process dies while holding an unacked message.
MaxCrashes == 1
\* Number of relay publishes that fail.
MaxFaults == 1

\* ------------------------------------------------------------- values
\* Python's None, as returned by dict.get for an absent key.
None == "<None>"

\* Prompts that external publishers put in envelopes ("" is the empty prompt).
Prompts == {"", "hi"}

\* str(uuid.uuid4()) of the submission the model follows.
uuid4 == "g1"

\* Job identifiers used by external publishers: the empty identifier and one
\* no Bridge listens to.
ExternalIds == {"", "x1"}

\* str.split() on the prompts of the model.
split(s) ==
    CASE s = ""        -> <<>>
      [] s = "hi"      -> <<"hi">>
      [] s = "tell me" -> <<"tell", "me">>
      [] OTHER         -> <<s>>

\* The words of the fixed text of simulate_llm after "{prompt}:".
Template ==
    <<"This", "is", "a", "simulated", "LLM", "stream.", "Channel", "ID:">>

\* (f"{prompt}: This is a simulated LLM stream. Channel ID: {channel_id}").split()
\* The colon follows the prompt without a space, so it ends the prompt's last
\* word (or stands alone when the prompt has no word).
simulate_llm_words(prompt, channel_id) ==
    LET pw == split(prompt)
        head == IF pw = <<>>
                THEN <<":">>
                ELSE SubSeq(pw, 1, Len(pw) - 1) \o <<pw[Len(pw)] \o ":">>
    IN  head \o Template \o split(channel_id)

\* json.dumps / json.loads of a relay payload: the text carries the object.
json_dumps(obj) == [json |-> obj]
json_loads(text) == text.json

\* The relay payloads of consumer.py.
TokenEvent(token) == [event |-> "token", data |-> token]
PlainEvent(name) == [event |-> name, data |-> "{}"]

\* The terminal events of the relay protocol.
Terminals == {"done", "timeout", "expired", "error"}

\* ------------------------------------------------------------- envelopes
\* A queue message body: json_ok is FALSE for a body json.loads rejects (or
\* that is no JSON object); keys are the keys present.
Envelope(keys, id, query, exp) ==
    [json_ok |-> TRUE, keys |-> keys, uuid |-> id, query |-> query,
     expires_at |-> exp]

Garbage ==
    [json_ok |-> FALSE, keys |-> {}, uuid |-> "", query |-> "",
     expires_at |-> 0]

\* body.get(key, default)
Get(body, key, default) ==
    IF key \in body.keys THEN body[key] ELSE default

\* json.dumps({"uuid": channel_id, "query": prompt}) of ask.
AskPayload(channel_id, prompt) ==
    Envelope({"uuid", "query"}, channel_id, prompt, 0)

\* Bodies an external publisher may have put on llm_queue: a body that is no
\* JSON object, and envelopes with and without an expiry, with an empty or a
\* missing identifier or prompt.
ExternalBodies ==
    {Garbage}
    \cup {Envelope({"uuid", "query", "expires_at"}, id, q, e) :
            id \in ExternalIds, q \in Prompts, e \in 0..MaxNow}
    \cup {Envelope({"uuid", "query"}, id, q, 0) :
            id \in ExternalIds, q \in Prompts}
    \cup {Envelope({"query", "expires_at"}, "", "hi", MaxNow),
          Envelope({"uuid", "expires_at"}, "x1", "", MaxNow)}

\* A job with an expiry that never passes, on the channel the submission's
\* Bridge listens to (put on the queue by a publisher that sets expires_at).
BridgeJob == Envelope({"uuid", "query", "expires_at"}, uuid4, "hi", MaxNow)

\* A job on the same channel whose expiry has passed when it is received.
StaleJob == Envelope({"uuid", "query", "expires_at"}, uuid4, "hi", 0)

QueueMessage(mid, body) ==
    [mid |-> mid, body |-> body, redelivered |-> FALSE]

NoMessage == QueueMessage(-1, Garbage)

VARIABLES
    now,        \* the last reading of time.time()
    queue,      \* llm_queue: the messages ready for delivery
    worker,     \* the running callback: its position and locals
    broker,     \* the acknowledge / reject frames the broker has received
    published,  \* every event the relay has accepted, in order
    delivery,   \* number of deliveries made to callback so far
    crashes,    \* number of worker crashes so far
    faults,     \* number of failed relay publishes so far
    req         \* the submission: the ask handler and its event_generator

vars == <<now, queue, worker, broker, published, delivery, crashes, faults,
          req>>

\* The queue message ids: 0 for the external publisher's, 1 for ask's, 2 for
\* an earlier message of the external publisher.
ExternalMid == 0
AskMid == 1
StaleMid == 2

\* ------------------------------------------------------------- relay
\* redis publish(channel, payload): the relay records the event and hands it
\* to every subscription that exists on that channel now; nothing is kept for
\* later subscribers.
\* Mutant of Deliver: a subscription hands out the newest message first.
DeliverNewestFirst(rq, channel, payload) ==
    IF rq.subscribed /\ rq.channel_id = channel
    THEN [rq EXCEPT !.inbox = <<[type |-> "message",
                                 data |-> payload]>> \o @]
    ELSE rq

Deliver(rq, channel, payload) ==
    IF rq.subscribed /\ rq.channel_id = channel
    THEN [rq EXCEPT !.inbox = Append(@, [type |-> "message",
                                         data |-> payload])]
    ELSE rq

\* The relay's log entry for an event published for message mid in delivery n.
Publication(channel, obj, mid, n) ==
    [channel |-> channel, event |-> obj.event, data |-> obj.data,
     mid |-> mid, delivery |-> n]

\* ------------------------------------------------------------- queue client
\* aio_pika IncomingMessage as callback uses it. ms is the state of the
\* message object: processed, the frames it has sent to the broker, and
\* whether a call raised MessageProcessError.
MessageState(processed) ==
    [processed |-> processed, frames |-> <<>>, raised |-> FALSE]

Frame(op, requeue) == [op |-> op, requeue |-> requeue]

\* message.ack(): refuses a message that is already processed.
message_ack(ms) ==
    IF ms.processed
    THEN [ms EXCEPT !.raised = TRUE]
    ELSE [ms EXCEPT !.processed = TRUE,
                    !.frames = Append(@, Frame("ack", FALSE))]

\* message.reject(requeue): refuses a message that is already processed.
message_reject(ms, requeue) ==
    IF ms.processed
    THEN [ms EXCEPT !.raised = TRUE]
    ELSE [ms EXCEPT !.processed = TRUE,
                    !.frames = Append(@, Frame("reject", requeue))]

\* Leaving `async with message.process(requeue, ignore_processed)`: ack when
\* the block ended normally, reject(requeue) when an exception leaves it; with
\* ignore_processed a message already processed is left alone.
process_exit(ms, exc, requeue, ignore_processed) ==
    IF ignore_processed /\ ms.processed
    THEN ms
    ELSE IF exc THEN message_reject(ms, requeue) ELSE message_ack(ms)

\* Mutant of ProcessRequeue: message.process(requeue=True, ...).
ProcessRequeueOn == TRUE

\* callback, line 89: message.process(ignore_processed=True); requeue keeps
\* its default, False.
ProcessRequeue == FALSE
ProcessIgnoreProcessed == TRUE

\* callback, lines 125-127: the handler of `except Exception`.
HandlerRequeue == FALSE

\* The block of callback ends normally: only the context manager acts.
CallbackReturns(ms) ==
    process_exit(ms, FALSE, ProcessRequeue, ProcessIgnoreProcessed)

\* An exception leaves the block: the context manager acts, the exception goes
\* on to `except Exception`, whose handler calls message.reject.
CallbackRaises(ms) ==
    message_reject(
        process_exit(ms, TRUE, ProcessRequeue, ProcessIgnoreProcessed),
        HandlerRequeue)

\* The broker's log entry for a frame of message mid in delivery n.
Logged(frames, mid, n) ==
    [k \in 1..Len(frames) |->
        [mid |-> mid, op |-> frames[k].op, requeue |-> frames[k].requeue,
         delivery |-> n]]

\* The broker puts a message back (marked redelivered) when a frame asks for
\* a requeue; otherwise a processed message is gone for good.
Requeued(frames, m) ==
    IF \E k \in 1..Len(frames) : frames[k].op = "reject" /\ frames[k].requeue
    THEN <<[m EXCEPT !.redelivered = TRUE]>>
    ELSE <<>>

\* ------------------------------------------------------------- worker
\* Mutant of InvalidPayload: only the identifier is checked.
InvalidPayloadIdOnly(channel_id, prompt) ==
    channel_id \in {None, ""}

\* callback, line 96: `if not channel_id or not prompt`.
InvalidPayload(channel_id, prompt) ==
    channel_id \in {None, ""} \/ prompt \in {None, ""}

\* callback, line 94: body.get("expires_at", 0).
ExpiresAt(body) == Get(body, "expires_at", 0)

\* Mutant of IsExpired: the comparison is reversed.
IsExpiredReversed(expires_at, t) == expires_at > t

\* callback, line 100: `if expires_at < time.time()`.
IsExpired(expires_at, t) == expires_at < t

IdleWorker ==
    [pc |-> "idle", message |-> NoMessage, processed |-> FALSE,
     channel_id |-> None, prompt |-> None, expires_at |-> 0,
     words |-> <<>>, i |-> 0, is_timeout |-> FALSE, sent |-> FALSE,
     \* history of the delivery, for the properties
     class |-> "none", at |-> 0, relay_fault |-> FALSE, deadline |-> FALSE,
     raised |-> FALSE, exit |-> "none",
     \* the words whose publish raised; a publish of another event raised
     lost |-> {}, terminal_fault |-> FALSE]

\* The positions of callback where a relay publish is awaited, and the event
\* each one publishes.
PublishPcs == {"pub_token", "pub_done", "pub_timeout", "pub_expired"}

CurrentEvent(w) ==
    CASE w.pc = "pub_token"   -> TokenEvent(w.words[w.i])
      [] w.pc = "pub_done"    -> PlainEvent("done")
      [] w.pc = "pub_timeout" -> PlainEvent("timeout")
      [] w.pc = "pub_expired" -> PlainEvent("expired")

\* Mutant of NextWord: process_message ends without publishing done.
NextWordNoDone(w) ==
    IF w.i < Len(w.words)
    THEN [w EXCEPT !.pc = "sleep", !.i = @ + 1, !.sent = FALSE]
    ELSE [w EXCEPT !.pc = "exit_ok", !.sent = FALSE]

\* simulate_llm: the loop `for w in words` after word i has been handled:
\* sleep before the next word, or the generator ends and process_message goes
\* on to publish done.
NextWord(w) ==
    IF w.i < Len(w.words)
    THEN [w EXCEPT !.pc = "sleep", !.i = @ + 1, !.sent = FALSE]
    ELSE [w EXCEPT !.pc = "pub_done", !.sent = FALSE]

\* callback, lines 84-113, up to its first await: parse, validate, check the
\* expiry, and start process_message under wait_for.
Classify(m, t, is_timeout) ==
    LET body == m.body
        channel_id == Get(body, "uuid", None)
        prompt == Get(body, "query", None)
        expires_at == ExpiresAt(body)
        w0 == [IdleWorker EXCEPT !.message = m, !.at = t]
    IN  IF ~body.json_ok
        THEN [w0 EXCEPT !.pc = "exit_exc", !.class = "invalid"]
        ELSE LET w1 == [w0 EXCEPT !.channel_id = channel_id,
                                  !.prompt = prompt,
                                  !.expires_at = expires_at]
             IN  IF InvalidPayload(channel_id, prompt)
                 THEN [w1 EXCEPT !.pc = "exit_exc", !.class = "invalid"]
                 ELSE IF IsExpired(expires_at, t)
                 THEN [w1 EXCEPT !.pc = "pub_expired", !.class = "expired"]
                 ELSE NextWord([w1 EXCEPT
                          !.class = "live",
                          !.words = simulate_llm_words(prompt, channel_id),
                          !.is_timeout = is_timeout])

\* time.time(): the clock never runs backwards; a reading is any value from the
\* last reading on.
Readings == now..MaxNow

\* The broker delivers the next message (prefetch 1: only to an idle worker)
\* and callback runs to its first await.
Receive ==
    /\ worker.pc = "idle"
    /\ queue # <<>>
    /\ \E t \in Readings, is_timeout \in BOOLEAN :
          /\ now' = t
          /\ worker' = Classify(Head(queue), t, is_timeout)
    /\ queue' = Tail(queue)
    /\ delivery' = delivery + 1
    /\ UNCHANGED <<broker, published, crashes, faults, req>>

\* simulate_llm, lines 58-59, and process_message, lines 75-76: the sleep
\* before word i ends, the word is yielded and stream_to_redis starts to
\* publish it. With is_timeout the sleep lasts the whole deadline, which
\* wait_for reaches first.
SleepDone ==
    /\ worker.pc = "sleep"
    /\ ~worker.is_timeout
    /\ worker' = [worker EXCEPT !.pc = "pub_token", !.sent = FALSE]
    /\ UNCHANGED <<now, queue, broker, published, delivery, crashes, faults, req>>

\* The relay accepts the event of the publish in flight.
RelayAccepts ==
    /\ worker.pc \in PublishPcs
    /\ ~worker.sent
    /\ published' = Append(published,
          Publication(worker.channel_id, CurrentEvent(worker),
                      worker.message.mid, delivery))
    /\ req' = Deliver(req, worker.channel_id,
                      json_dumps(CurrentEvent(worker)))
    /\ worker' = [worker EXCEPT !.sent = TRUE]
    /\ UNCHANGED <<now, queue, broker, delivery, crashes, faults>>

\* Mutant of AfterPublish: after the timeout event the cancelled
\* process_message is resumed instead of left.
AfterPublishResumes(w) ==
    IF w.pc \in {"pub_token", "pub_timeout"} THEN NextWord(w)
    ELSE [w EXCEPT !.pc = "exit_ok"]

\* Mutant of AfterPublish: the Worker looks at who is subscribed, and treats
\* a publish that reached no subscriber as failed.
AfterPublishNoSubscriber(w) ==
    IF ~req.subscribed THEN [w EXCEPT !.pc = "exit_exc"]
    ELSE IF w.pc = "pub_token" THEN NextWord(w)
    ELSE [w EXCEPT !.pc = "exit_ok"]

\* What follows a publish that returned.
AfterPublish(w) ==
    IF w.pc = "pub_token" THEN NextWord(w)
    ELSE [w EXCEPT !.pc = "exit_ok"]

\* Mutant of AfterPublishError: stream_to_redis lets the exception through.
AfterPublishErrorRaises(w) ==
    [w EXCEPT !.pc = "exit_exc"]

\* What follows a publish that raised: stream_to_redis (lines 64-70) logs and
\* swallows it; every other publish lets it leave the block of callback.
AfterPublishError(w) ==
    IF w.pc = "pub_token" THEN NextWord(w)
    ELSE [w EXCEPT !.pc = "exit_exc"]

\* The awaited publish returns.
PublishReturns ==
    /\ worker.pc \in PublishPcs
    /\ worker.sent
    /\ worker' = AfterPublish(worker)
    /\ UNCHANGED <<now, queue, broker, published, delivery, crashes, faults, req>>

\* The awaited publish raises (relay unreachable, or the connection is lost
\* while the reply is awaited).
PublishFails ==
    /\ worker.pc \in PublishPcs
    /\ faults < MaxFaults
    /\ faults' = faults + 1
    /\ worker' = [AfterPublishError(worker) EXCEPT
                    !.relay_fault = TRUE,
                    !.lost = IF worker.pc = "pub_token"
                             THEN @ \cup {worker.i} ELSE @,
                    !.terminal_fault = @ \/ worker.pc # "pub_token"]
    /\ UNCHANGED <<now, queue, broker, published, delivery, crashes, req>>

\* Mutant of DeadlinePcs: the deadline does not reach the Producer's sleep.
DeadlinePcsNoSleep == {"pub_token", "pub_done"}

\* The awaits of process_message, where wait_for can cancel it.
DeadlinePcs == {"sleep", "pub_token", "pub_done"}

\* callback, lines 110-123: the deadline of wait_for elapses, process_message
\* is cancelled where it is suspended, and the handler starts to publish
\* timeout.
Deadline ==
    /\ worker.pc \in DeadlinePcs
    /\ worker' = [worker EXCEPT !.pc = "pub_timeout", !.sent = FALSE,
                                !.deadline = TRUE]
    /\ UNCHANGED <<now, queue, broker, published, delivery, crashes, faults, req>>

\* The end of a delivery: the frames reach the broker and the worker is idle.
Finish(ms, how) ==
    /\ broker' = broker \o Logged(ms.frames, worker.message.mid, delivery)
    /\ queue' = Requeued(ms.frames, worker.message) \o queue
    /\ worker' = [worker EXCEPT !.pc = "idle", !.processed = ms.processed,
                                !.raised = ms.raised, !.exit = how]
    /\ UNCHANGED <<now, published, delivery, crashes, faults, req>>

\* callback returns from the block of `async with`.
ExitOk ==
    /\ worker.pc = "exit_ok"
    /\ Finish(CallbackReturns(MessageState(worker.processed)), "returned")

\* An exception leaves the block of `async with`.
ExitExc ==
    /\ worker.pc = "exit_exc"
    /\ Finish(CallbackRaises(MessageState(worker.processed)), "raised")

\* The worker process dies while it holds an unacknowledged message: the
\* broker puts the message back at the head of the queue, marked redelivered,
\* and a restarted worker is idle.
Crash ==
    /\ worker.pc # "idle"
    /\ crashes < MaxCrashes
    /\ crashes' = crashes + 1
    /\ queue' = <<[worker.message EXCEPT !.redelivered = TRUE]>> \o queue
    /\ worker' = [worker EXCEPT !.pc = "idle", !.exit = "crashed"]
    /\ UNCHANGED <<now, broker, published, delivery, faults, req>>

\* ------------------------------------------------------------- gateway, bridge
NoRequest ==
    [pc |-> "none", channel_id |-> None, subscribed |-> FALSE,
     inbox |-> <<>>, out |-> <<>>, releases |-> 0,
     \* history of the submission, for the properties
     enq_at |-> 0, local |-> "none", seen_terminal |-> FALSE]

\* What the relay sends a subscription when it is set up (type "subscribe").
SubscribeNotice == [type |-> "subscribe", data |-> json_dumps(PlainEvent(""))]

\* The records event_generator yields.
\* f"data: {json.dumps({'token': data.get('data')})}\n\n"
TokenRecord(token) == [kind |-> "data", value |-> token]
\* f"event: {data.get('event')}", and the literal "event: timeout" / "event: error"
EventRecord(name) == [kind |-> "event", value |-> name]

\* ask, lines 100-125: take the prompt (data.get("query", "")), draw a job
\* identifier, publish {"uuid", "query"} to llm_queue and return a
\* StreamingResponse over event_generator(channel_id). The generator object is
\* created but its body has not started to run.
ask ==
    /\ req.pc = "none"
    /\ \E prompt \in Prompts :
          queue' = Append(queue,
                          QueueMessage(AskMid, AskPayload(uuid4, prompt)))
    /\ req' = [req EXCEPT !.pc = "start",
                      !.channel_id = uuid4,
                      !.enq_at = now]
    /\ UNCHANGED <<now, worker, broker, published, delivery, crashes, faults>>

\* event_generator, lines 65-66: the response starts to iterate the generator,
\* which creates the pubsub object and subscribes to the channel.
Subscribe ==
    /\ req.pc = "start"
    /\ req' = [req EXCEPT !.pc = "listen",
                      !.subscribed = TRUE,
                      !.inbox = <<SubscribeNotice>>]
    /\ UNCHANGED <<now, queue, worker, broker, published, delivery, crashes,
                   faults>>

\* Mutant of Handle: no `break` after a record of a non-token event.
HandleNoBreak(b) ==
    LET message == Head(b.inbox)
        data == json_loads(message.data)
        rest == [b EXCEPT !.inbox = Tail(@)]
    IN  IF message.type # "message"
        THEN rest
        ELSE IF data.event # "token"
        THEN [rest EXCEPT !.out = Append(@, EventRecord(data.event)),
                      !.pc = "yield_token", !.seen_terminal = TRUE]
        ELSE [rest EXCEPT !.out = Append(@, TokenRecord(data.data)),
                      !.pc = "yield_token"]

\* event_generator, lines 70-83: one message of pubsub.listen().
Handle(b) ==
    LET message == Head(b.inbox)
        data == json_loads(message.data)
        rest == [b EXCEPT !.inbox = Tail(@)]
    IN  IF message.type # "message"
        THEN rest
        ELSE IF data.event # "token"
        THEN [rest EXCEPT !.out = Append(@, EventRecord(data.event)),
                      !.pc = "yield_event", !.seen_terminal = TRUE]
        ELSE [rest EXCEPT !.out = Append(@, TokenRecord(data.data)),
                      !.pc = "yield_token"]

Listen ==
    /\ req.pc = "listen"
    /\ req.inbox # <<>>
    /\ req' = Handle(req)
    /\ UNCHANGED <<now, queue, worker, broker, published, delivery, crashes,
                   faults>>

\* The response asks for the next record: after a token record the loop goes
\* on; after a terminal record `break` (line 78) or the end of an except
\* block leads to the finally block.
Resume ==
    /\ req.pc \in {"yield_token", "yield_event", "yield_local"}
    /\ req' = [req EXCEPT
                 !.pc = IF @ = "yield_token" THEN "listen" ELSE "finally"]
    /\ UNCHANGED <<now, queue, worker, broker, published, delivery, crashes,
                   faults>>

\* event_generator, lines 69 and 84-85: max_timeout elapses while the
\* generator waits for a message.
BridgeTimeout ==
    /\ req.pc = "listen"
    /\ req' = [req EXCEPT !.out = Append(@, EventRecord("timeout")),
                      !.pc = "yield_local", !.local = "timeout"]
    /\ UNCHANGED <<now, queue, worker, broker, published, delivery, crashes,
                   faults>>

\* event_generator, lines 86-88: pubsub.listen() or json.loads raises.
BridgeFault ==
    /\ req.pc = "listen"
    /\ req' = [req EXCEPT !.out = Append(@, EventRecord("error")),
                      !.pc = "yield_local", !.local = "error"]
    /\ UNCHANGED <<now, queue, worker, broker, published, delivery, crashes,
                   faults>>

\* asyncio.timeout (line 69) cancels the task that entered it, the one that
\* iterates the generator. While the generator is suspended at a yield inside
\* the block (lines 77 and 81) that task is in the response's send: the
\* cancellation ends the response, no timeout record is produced, and the
\* generator is closed later at the yield, where only its finally block runs.
TimeoutAtYield ==
    /\ req.pc \in {"yield_token", "yield_event"}
    /\ req' = [req EXCEPT !.pc = "finally", !.local = "timeout"]
    /\ UNCHANGED <<now, queue, worker, broker, published, delivery, crashes,
                   faults>>

\* The positions where event_generator is suspended after it has subscribed
\* and before its finally block, and the two awaits of the finally block.
StreamPcs == {"listen", "yield_token", "yield_event", "yield_local"}
CleanupPcs == {"finally", "close"}

\* Where a cancellation by the caller takes the generator. Before its first
\* step it has nothing to run; in or at a yield of the try statement
\* CancelledError or GeneratorExit (neither is an Exception) leads to the
\* finally block; at an await of the finally block the exception leaves the
\* generator and the rest of the block is skipped.
Cancelled(pc) ==
    CASE pc = "start"      -> "unstarted"
      [] pc \in StreamPcs  -> "finally"
      [] pc \in CleanupPcs -> "aborted"

\* The caller goes away: the response task is cancelled and the generator is
\* closed where it is suspended.
Cancel ==
    /\ req.pc \in {"start"} \cup StreamPcs \cup CleanupPcs
    /\ req' = [req EXCEPT !.pc = Cancelled(@), !.local = "cancel"]
    /\ UNCHANGED <<now, queue, worker, broker, published, delivery, crashes,
                   faults>>

\* event_generator, line 90: pubsub.unsubscribe returns; the relay no longer
\* delivers to this subscription, and the messages it still holds are never
\* read (the loop of line 70 has been left).
Unsubscribe ==
    /\ req.pc = "finally"
    /\ req' = [req EXCEPT !.pc = "close",
                      !.subscribed = FALSE,
                      !.inbox = <<>>,
                      !.releases = @ + 1]
    /\ UNCHANGED <<now, queue, worker, broker, published, delivery, crashes,
                   faults>>

\* event_generator, line 91: pubsub.close returns and the generator ends.
Close ==
    /\ req.pc = "close"
    /\ req' = [req EXCEPT !.pc = "closed"]
    /\ UNCHANGED <<now, queue, worker, broker, published, delivery, crashes,
                   faults>>

\* event_generator, lines 89-91: unsubscribe or close raises (the connection
\* to the relay is lost). No handler encloses the finally block: the
\* exception leaves the generator and the rest of the block is skipped.
CleanupFails ==
    /\ req.pc \in CleanupPcs
    /\ req' = [req EXCEPT !.pc = "aborted"]
    /\ UNCHANGED <<now, queue, worker, broker, published, delivery, crashes,
                   faults>>

Init ==
    /\ now = 1
    /\ queue \in {<<>>} \cup {<<QueueMessage(ExternalMid, b)>> : b \in ExternalBodies}
    /\ worker = IdleWorker
    /\ broker = <<>>
    /\ published = <<>>
    /\ delivery = 0
    /\ crashes = 0
    /\ faults = 0
    /\ req = NoRequest

\* The same, for the end-to-end runs: the queue is empty, or holds StaleJob
\* and then BridgeJob.
InitBridge ==
    /\ now = 1
    /\ queue \in {<<>>, <<QueueMessage(StaleMid, StaleJob),
                         QueueMessage(ExternalMid, BridgeJob)>>}
    /\ worker = IdleWorker
    /\ broker = <<>>
    /\ published = <<>>
    /\ delivery = 0
    /\ crashes = 0
    /\ faults = 0
    /\ req = NoRequest

\* The Worker with a relay that answers every publish.
WorkerNext ==
    \/ Receive
    \/ SleepDone
    \/ RelayAccepts
    \/ PublishReturns
    \/ Deadline
    \/ ExitOk
    \/ ExitExc

\* The Worker, the relay failing some publishes, and the Gateway's enqueue.
Next ==
    \/ WorkerNext
    \/ PublishFails
    \/ ask

\* The same with a worker process that may die.
NextCrash ==
    \/ Next
    \/ Crash

\* End to end: the Gateway, the Worker and the Bridge.
NextBridge ==
    \/ WorkerNext
    \/ ask
    \/ Subscribe
    \/ Listen
    \/ Resume
    \/ BridgeTimeout
    \/ BridgeFault
    \/ TimeoutAtYield
    \/ Cancel
    \/ Unsubscribe
    \/ Close
    \/ CleanupFails

Spec == Init /\ [][Next]_vars

SpecCrash == Init /\ [][NextCrash]_vars

SpecBridge == InitBridge /\ [][NextBridge]_vars

\* The Worker under fair scheduling, with no crash: the event loop runs every
\* callback that is ready (a delivery, the end of a sleep, the timer of
\* wait_for, the end of callback), and the relay answers every publish.
SpecFair ==
    /\ Init
    /\ [][Next]_vars
    /\ WF_vars(Receive)
    /\ WF_vars(SleepDone)
    /\ WF_vars(RelayAccepts)
    /\ WF_vars(PublishReturns)
    /\ WF_vars(Deadline)
    /\ WF_vars(ExitOk)
    /\ WF_vars(ExitExc)

\* ------------------------------------------------------------- properties
\* The events the relay accepted in delivery n, and for queue message mid.
EventsOf(n) == SelectSeq(published, LAMBDA e : e.delivery = n)
EventsFor(mid) == SelectSeq(published, LAMBDA e : e.mid = mid)

\* The frames the broker received in delivery n.
FramesOf(n) == SelectSeq(broker, LAMBDA f : f.delivery = n)

EventNames(es) == [k \in 1..Len(es) |-> es[k].event]
EventData(es) == [k \in 1..Len(es) |-> es[k].data]

\* The envelope of the last message delivered, as the publisher wrote it.
Body == worker.message.body
HasId == Body.json_ok /\ "uuid" \in Body.keys /\ Body.uuid # ""
HasPrompt == Body.json_ok /\ "query" \in Body.keys /\ Body.query # ""
WellFormed == HasId /\ HasPrompt
HasExpiry == Body.json_ok /\ "expires_at" \in Body.keys
ExpiryPassed == HasExpiry /\ Body.expires_at < worker.at
ExpiryFuture == HasExpiry /\ Body.expires_at > worker.at

\* A message has been delivered / callback has finished with it.
Delivered == delivery > 0 /\ worker.message.mid # NoMessage.mid
Finished == Delivered /\ worker.pc = "idle"
             /\ worker.exit \in {"returned", "raised"}

OneAck(fs) == Len(fs) = 1 /\ fs[1].op = "ack"
OneReject(fs) == Len(fs) = 1 /\ fs[1].op = "reject" /\ ~fs[1].requeue

\* A message the broker has a frame for is gone: it is neither on the queue
\* nor being handled.
NeverRedelivered ==
    \A k \in 1..Len(broker) :
        /\ \A q \in 1..Len(queue) : queue[q].mid # broker[k].mid
        /\ worker.pc # "idle" => worker.message.mid # broker[k].mid

\* C1 (as claimed): for every queue message (job), at most one terminal event
\* has been published and no event at all follows a terminal event, at every
\* moment of the job's life.
C1_Orig ==
    \A mid \in {ExternalMid, AskMid} :
        LET es == EventsFor(mid)
        IN  \A a, b \in 1..Len(es) : a < b => es[a].event \notin Terminals

\* The token events the Producer's words call for, then done.
ExpectedStream ==
    [k \in 1..Len(worker.words) |-> "token"] \o <<"done">>
ExpectedData ==
    worker.words \o <<"{}">>

\* Number of events process_message has published when it is at its current
\* position (no publish failed, the deadline has not elapsed).
Progress ==
    CASE worker.pc = "sleep"     -> worker.i - 1
      [] worker.pc = "pub_token" -> worker.i - 1 + (IF worker.sent THEN 1 ELSE 0)
      [] worker.pc = "pub_done"  ->
            Len(worker.words) + (IF worker.sent THEN 1 ELSE 0)
      [] OTHER                   -> Len(worker.words) + 1

C3_OneDisposition ==
    \A n \in 1..delivery :
        LET fs == FramesOf(n)
        IN  /\ Len(fs) = IF n = delivery /\ worker.pc # "idle" THEN 0 ELSE 1
            /\ \A k \in 1..Len(fs) :
                  /\ fs[k].op \in {"ack", "reject"}
                  /\ fs[k].op = "reject" => ~fs[k].requeue

\* Both dispositions have been issued, and the handler's second reject was
\* refused by the message object.
C3_Witness ==
    /\ Finished /\ worker.exit = "raised" /\ worker.raised
    /\ OneReject(FramesOf(delivery))
    /\ \E k \in 1..Len(broker) : broker[k].op = "ack"

\* C4 (as claimed): a message with identifier and prompt but no expires_at
\* field is not treated as expired: no expired event is published for it and
\* callback does not take the expired branch.
C4_Orig ==
    (Delivered /\ WellFormed /\ ~HasExpiry)
        => /\ worker.pc # "pub_expired"
           /\ \A k \in 1..Len(EventsOf(delivery)) :
                 EventsOf(delivery)[k].event # "expired"

\* C5 (as claimed): a delivered message whose expiry had passed at receipt
\* has had exactly one event published, expired, and has been acknowledged.
C5_Orig ==
    (Finished /\ WellFormed /\ ExpiryPassed)
        => /\ EventNames(EventsOf(delivery)) = <<"expired">>
           /\ OneAck(FramesOf(delivery))

\* C5 (amended): for a message whose expiry had passed at receipt the
\* Producer is never started and nothing but at most one expired event is
\* published; the message is acknowledged after the expired event when that
\* publish returns, and rejected without requeue when that publish fails.
C5_Expired ==
    (Delivered /\ WellFormed /\ ExpiryPassed)
        => /\ worker.words = <<>>
           /\ worker.pc \in {"pub_expired", "exit_ok", "exit_exc", "idle"}
           /\ EventNames(EventsOf(delivery)) \in {<<>>, <<"expired">>}
           /\ worker.pc = "exit_ok"
                => EventNames(EventsOf(delivery)) = <<"expired">>
           /\ Finished =>
                \/ /\ worker.exit = "returned"
                   /\ EventNames(EventsOf(delivery)) = <<"expired">>
                   /\ OneAck(FramesOf(delivery))
                \/ /\ worker.exit = "raised"
                   /\ worker.relay_fault
                   /\ OneReject(FramesOf(delivery))

C5_Witness ==
    /\ Finished /\ WellFormed /\ ExpiryPassed
    /\ Body.expires_at > 0
    /\ worker.exit = "returned"
    /\ EventNames(EventsOf(delivery)) = <<"expired">>
    /\ OneAck(FramesOf(delivery))

\* The last event of a sequence is a timeout and no other one is.
EndsInOneTimeout(names) ==
    /\ names # <<>>
    /\ \A k \in 1..Len(names) : names[k] = "timeout" <=> k = Len(names)

\* C6 (as claimed): a delivery whose deadline elapsed has, when callback has
\* finished, an event sequence that ends in exactly one timeout, and has been
\* acknowledged.
C6_Orig ==
    (Finished /\ worker.deadline)
        => /\ EndsInOneTimeout(EventNames(EventsOf(delivery)))
           /\ OneAck(FramesOf(delivery))

\* C6 (amended): once the deadline has elapsed the Producer is cancelled
\* (process_message never runs again), at most one timeout event is published
\* and nothing is published after it; the message is acknowledged after the
\* timeout event when that publish returns, and rejected without requeue when
\* that publish fails.
C6_Timeout ==
    (Delivered /\ worker.deadline)
        => LET names == EventNames(EventsOf(delivery))
           IN  /\ worker.pc \in {"pub_timeout", "exit_ok", "exit_exc", "idle"}
               /\ \A k \in 1..Len(names) :
                     names[k] = "timeout" => k = Len(names)
               /\ worker.pc = "exit_ok" => EndsInOneTimeout(names)
               /\ Finished =>
                    \/ /\ worker.exit = "returned"
                       /\ EndsInOneTimeout(names)
                       /\ OneAck(FramesOf(delivery))
                    \/ /\ worker.exit = "raised"
                       /\ worker.relay_fault
                       /\ OneReject(FramesOf(delivery))

C6_Witness ==
    /\ Finished /\ worker.deadline /\ worker.exit = "returned"
    /\ EndsInOneTimeout(EventNames(EventsOf(delivery)))
    /\ Len(EventsOf(delivery)) > 2
    /\ OneAck(FramesOf(delivery))

\* C7 (as claimed): no event of the submission's job is published while the
\* Bridge has yet to subscribe.
C7_Orig ==
    req.pc = "start" => EventsFor(AskMid) = <<>>

\* What event_generator makes of a relay event.
Record(e) ==
    IF e.event = "token" THEN TokenRecord(e.data) ELSE EventRecord(e.event)

\* The events published on the submission's channel, as stream records.
ChannelRecords ==
    LET es == SelectSeq(published, LAMBDA e : e.channel = uuid4)
    IN  [k \in 1..Len(es) |-> Record(es[k])]

\* The records the Bridge has emitted, then those of the messages it holds.
SeenRecords ==
    LET ms == SelectSeq(req.inbox, LAMBDA m : m.type = "message")
    IN  req.out \o [k \in 1..Len(ms) |-> Record(json_loads(ms[k].data))]

\* The events published for the submission's own job, as stream records.
JobRecords ==
    LET es == EventsFor(AskMid)
    IN  [k \in 1..Len(es) |-> Record(es[k])]

\* C8 (as claimed): while the Bridge listens (no local timeout, fault or
\* cancellation), every event published for the submission's job has been
\* emitted to the client or is waiting in its subscription, in publication
\* order, as the last events of its channel: no published event is lost.
C8_Orig ==
    (req.pc \in {"listen", "yield_token", "yield_event"}
        /\ req.local = "none")
        => /\ Len(JobRecords) <= Len(SeenRecords)
           /\ JobRecords = SubSeq(SeenRecords,
                                  Len(SeenRecords) - Len(JobRecords) + 1,
                                  Len(SeenRecords))

\* C9 (as claimed): the submission's message, picked up at the clock reading
\* at which ask enqueued it (so before any time-to-live has passed), is not
\* classified as expired.
C9_Orig ==
    (Delivered /\ worker.message.mid = AskMid /\ worker.at = req.enq_at
        /\ HasPrompt)
        => /\ worker.pc # "pub_expired"
           /\ \A k \in 1..Len(EventsOf(delivery)) :
                 EventsOf(delivery)[k].event # "expired"

\* C10: a message that is a JSON object but has a missing or empty identifier
\* or prompt never starts the Producer, has no event published for it, is
\* rejected without requeue and is never delivered again.
C10_Rejected ==
    /\ NeverRedelivered
    /\ (Delivered /\ Body.json_ok /\ ~WellFormed)
        => /\ worker.words = <<>>
           /\ worker.pc \in {"exit_exc", "idle"}
           /\ EventsOf(delivery) = <<>>
           /\ worker.pc = "exit_exc" => FramesOf(delivery) = <<>>
           /\ worker.pc = "idle" => OneReject(FramesOf(delivery))

C10_Witness ==
    /\ Finished /\ Body.json_ok /\ HasId /\ ~HasPrompt
    /\ OneReject(FramesOf(delivery))
    /\ EventsOf(delivery) = <<>>

\* The invocation of event_generator has subscribed / has ended (the generator
\* has returned, or an exception has left its finally block).
HasSubscribed == req.pc \in StreamPcs \cup CleanupPcs \cup {"closed", "aborted"}
Ended == req.pc \in {"closed", "aborted"}

\* C11 (as claimed): the subscription of an invocation is never released more
\* than once, and an invocation that has subscribed and has ended, in
\* whichever way, has released its subscription exactly once: the relay no
\* longer holds it.
C11_Orig ==
    /\ req.releases <= 1
    /\ (HasSubscribed /\ Ended) => (req.releases = 1 /\ ~req.subscribed)

\* The output holds a terminal record.
HasTerminalRecord ==
    \E k \in 1..Len(req.out) : req.out[k].kind = "event"

\* Some tail of the events published on the channel.
ChannelTails ==
    {SubSeq(ChannelRecords, a, Len(ChannelRecords)) :
        a \in 1..(Len(ChannelRecords) + 1)}

\* C12: the output of the Bridge is token records followed by at most one
\* terminal record, and nothing follows a terminal record. While the stream
\* is undisturbed, the records emitted and the messages still held are,
\* one record per event and in order, the events published since the
\* subscription: a token event gives a token record after which the Bridge
\* listens again, the first other event gives a terminal record after which
\* it never listens again; a local timeout or error gives its own terminal
\* record.
C12_Shape ==
    /\ \A k \in 1..Len(req.out) :
          req.out[k].kind = "event" => k = Len(req.out)
    /\ HasTerminalRecord => req.pc \notin {"listen", "yield_token"}
    /\ req.pc = "yield_token"
          => req.out # <<>> /\ req.out[Len(req.out)].kind = "data"
    /\ req.pc = "yield_event"
          => /\ req.seen_terminal
             /\ req.out # <<>> /\ req.out[Len(req.out)].kind = "event"
    /\ req.pc = "yield_local"
          => /\ req.local \in {"timeout", "error"}
             /\ req.out # <<>>
             /\ req.out[Len(req.out)] = EventRecord(req.local)
    /\ (req.pc \in {"listen", "yield_token", "yield_event"}
            /\ req.local = "none")
          => SeenRecords \in ChannelTails

\* The Bridge has forwarded several tokens and then done, and has ended
\* while a later event of the channel was never emitted.
C12_Witness ==
    /\ req.pc = "closed" /\ req.local = "none"
    /\ Len(req.out) > 2
    /\ req.out[Len(req.out)] = EventRecord("done")
    /\ req.out[1].kind = "data"
    /\ Len(ChannelRecords) > 0
    /\ ChannelRecords[Len(ChannelRecords)] = EventRecord("expired")

\* The names of the terminal records of the output.
TerminalRecords ==
    LET rs == SelectSeq(req.out, LAMBDA r : r.kind = "event")
    IN  [k \in 1..Len(rs) |-> rs[k].value]

\* C13 (as claimed): when the max-duration of the Bridge has elapsed before
\* the Bridge observed a terminal event, and the caller did not cancel, the
\* stream that has ended holds exactly one terminal record, the local
\* timeout, whatever the Worker has published in the meantime.
C13_Orig ==
    (req.pc = "closed" /\ req.local = "timeout" /\ ~req.seen_terminal)
        => TerminalRecords = <<"timeout">>

\* A step in which event_generator moves: it changes its position or takes
\* a message from its subscription.
BridgeMoved ==
    /\ req.pc # "none"
    /\ \/ req'.pc # req.pc
       \/ Len(req'.inbox) < Len(req.inbox)

\* The outcome of a finished delivery, as the Worker alone determines it
\* when the relay answers every publish.
WorkerOutcome ==
    Finished =>
        /\ worker.class = "invalid"
              => /\ EventsOf(delivery) = <<>>
                 /\ OneReject(FramesOf(delivery))
        /\ worker.class # "invalid" => OneAck(FramesOf(delivery))
        /\ worker.class = "live" /\ ~worker.deadline
              => EventNames(EventsOf(delivery)) = ExpectedStream
        /\ worker.class = "live" /\ worker.deadline
              => EndsInOneTimeout(EventNames(EventsOf(delivery)))
        /\ worker.class = "expired"
              => EventNames(EventsOf(delivery)) = <<"expired">>

\* C14: no step of the Bridge (receiving, yielding, local timeout, fault,
\* cancellation, cleanup) changes the Worker's state, the events published,
\* the queue or the frames sent to the broker; and in every state of the
\* Bridge, subscribed or not, a delivery ends in the outcome the Worker
\* alone determines.
C14_Frame ==
    /\ []WorkerOutcome
    /\ [][BridgeMoved
            => UNCHANGED <<now, queue, worker, broker, published, delivery>>]_vars

\* The caller cancelled the stream in the middle of a live job, whose
\* delivery then ended with all its tokens, done and an acknowledgement.
C14_Witness ==
    /\ req.local = "cancel" /\ req.pc \in {"closed", "aborted"}
    /\ req.out # <<>>
    /\ Len(req.out) < Len(worker.words)
    /\ Finished /\ worker.class = "live" /\ ~worker.deadline
    /\ EventNames(EventsOf(delivery)) = ExpectedStream
    /\ OneAck(FramesOf(delivery))

\* The tokens published on the channel, and those the Bridge has emitted.
ChannelTokens ==
    LET rs == SelectSeq(ChannelRecords, LAMBDA r : r.kind = "data")
    IN  [k \in 1..Len(rs) |-> rs[k].value]
OutTokens ==
    LET rs == SelectSeq(req.out, LAMBDA r : r.kind = "data")
    IN  [k \in 1..Len(rs) |-> rs[k].value]

\* s can be obtained from t by leaving elements out.
RECURSIVE IsSubsequence(_, _)
IsSubsequence(s, t) ==
    IF s = <<>> THEN TRUE
    ELSE IF t = <<>> THEN FALSE
    ELSE IF Head(s) = Head(t) THEN IsSubsequence(Tail(s), Tail(t))
    ELSE IsSubsequence(s, Tail(t))

\* C15: the token records the Bridge has emitted are, in order, a
\* subsequence of the token events published on the job's channel; and once
\* the Bridge has observed a terminal event its output is a stretch of the
\* channel's events that ends with that terminal event, so that no event
\* published after it is ever emitted.
C15_Order ==
    /\ IsSubsequence(OutTokens, ChannelTokens)
    /\ req.seen_terminal
          => \E b \in 1..Len(ChannelRecords) : \E a \in 1..b :
                /\ req.out = SubSeq(ChannelRecords, a, b)
                /\ ChannelRecords[b].kind = "event"

\* The Bridge subscribed late, emitted some of the tokens and done, and has
\* ended; an event published afterwards was not emitted.
C15_Witness ==
    /\ req.seen_terminal /\ req.pc = "closed"
    /\ Len(OutTokens) > 1
    /\ Len(OutTokens) < Len(ChannelTokens)
    /\ req.out[Len(req.out)] = EventRecord("done")
    /\ ChannelRecords[Len(ChannelRecords)] # EventRecord("done")

\* The token events published in the current delivery.
TokensOf(n) ==
    LET es == SelectSeq(EventsOf(n), LAMBDA e : e.event = "token")
    IN  [k \in 1..Len(es) |-> es[k].data]

\* In the current delivery some token publish has raised, and no other
\* publish has.
OnlyTokenFaults ==
    /\ Delivered /\ worker.class = "live"
    /\ worker.lost # {} /\ ~worker.terminal_fault

\* C16: a delivery in which a token publish raised (and no other publish
\* did) never takes the exception path; no token is published twice and the
\* tokens published are in generation order; when the delivery has finished
\* before the deadline every word whose publish did not raise has been
\* published and done is the last event; when the deadline elapsed timeout
\* is the last event; and in both cases the message has been acknowledged.
C16_Swallowed ==
    OnlyTokenFaults =>
        /\ worker.pc # "exit_exc"
        /\ IsSubsequence(TokensOf(delivery), worker.words)
        /\ Finished =>
              /\ worker.exit = "returned"
              /\ OneAck(FramesOf(delivery))
              /\ LET names == EventNames(EventsOf(delivery))
                 IN  IF worker.deadline
                     THEN EndsInOneTimeout(names)
                     ELSE /\ names # <<>>
                          /\ names[Len(names)] = "done"
                          /\ \A k \in 1..Len(worker.words) :
                                k \notin worker.lost
                                  => \E j \in 1..Len(TokensOf(delivery)) :
                                        TokensOf(delivery)[j] = worker.words[k]

\* The publish of the second token raised before the relay took it; the
\* other tokens and done were published and the message was acknowledged.
C16_Witness ==
    /\ OnlyTokenFaults /\ Finished /\ ~worker.deadline
    /\ worker.lost = {2}
    /\ Len(TokensOf(delivery)) = Len(worker.words) - 1
    /\ EventNames(EventsOf(delivery))[Len(worker.words)] = "done"
    /\ OneAck(FramesOf(delivery))

\* The terminal events published in delivery n.
TerminalsOf(n) == SelectSeq(EventsOf(n), LAMBDA e : e.event \in Terminals)

\* C17 (as claimed): for every delivery, a reject frame means that no
\* terminal event was published in that delivery, and an ack frame means
\* that exactly one terminal event was.
C17_Orig ==
    \A n \in 1..delivery :
        \A k \in 1..Len(FramesOf(n)) :
            /\ FramesOf(n)[k].op = "reject" => Len(TerminalsOf(n)) = 0
            /\ FramesOf(n)[k].op = "ack" => Len(TerminalsOf(n)) = 1

\* C18 (as claimed): after a fault while the Bridge was listening (and
\* without a cancellation by the caller) the output holds exactly one
\* terminal record, the local error, as its last record, and when the
\* invocation has ended the subscription has been released.
C18_Orig ==
    req.local = "error"
        => /\ TerminalRecords = <<"error">>
           /\ req.out[Len(req.out)] = EventRecord("error")
           /\ Ended => (req.releases = 1 /\ ~req.subscribed)

====
